---- MODULE Spec2Model ----
(***************************************************************************)
(* Host-state checks of distributive: packages.go and systemctl.go.        *)
(*                                                                         *)
(* A string is a sequence of atoms.  An atom is a TLA+ string standing for *)
(* one character (" ", "\n", "#", "=", "a") or for a run of characters     *)
(* that the code only ever handles as a unit (a literal such as "name=" or *)
(* "IgnorePkg", a state word such as "active").  The empty string is <<>>. *)
(***************************************************************************)
EXTENDS Integers, Sequences, FiniteSets, TLC

VARIABLES
    pc,          \* "idle" | "built" | "returned" | "fatal" | "panic"
    check,       \* name of the check the thunk was built for
    target,      \* first argument bound by the factory
    status,      \* second argument (systemctlUnitFileStatus), <<>> otherwise
    keys,        \* Installed: the managers in map iteration order
    host,        \* what the invocation read from the machine
    mgr,         \* result of getManager: [fatal, program, probed]
    exitCode,    \* returned exit code, -1 while nothing was returned
    exitMessage  \* returned message

vars == <<pc, check, target, status, keys, host, mgr, exitCode, exitMessage>>

----------------------------------------------------------------------------
(* Bounds of the model *)

MaxManagers == 3
MaxAptLines == 2
MaxYumLines == 3
MaxPrefix == 2
MaxPkgs == 2
MaxUnitLines == 2
MaxSocketLines == 2
MaxTimerAtoms == 4
MaxUnitFileLines == 4

----------------------------------------------------------------------------
(* Strings *)

Space == {" ", "\t", "\n"}

Min(a, b) == IF a < b THEN a ELSE b

SeqsUpTo(S, n) == UNION {[1..k -> S] : k \in 0..n}

RECURSIVE Join(_, _)
Join(ss, sep) ==
    IF ss = <<>> THEN <<>>
    ELSE IF Len(ss) = 1 THEN ss[1]
    ELSE ss[1] \o sep \o Join(Tail(ss), sep)

\* strings.Contains
Contains(s, sub) ==
    \E i \in 0..(Len(s) - Len(sub)) : SubSeq(s, i + 1, i + Len(sub)) = sub

\* strings.TrimPrefix with a one-atom literal prefix
TrimPrefix(s, prefix) ==
    IF Len(s) >= 1 /\ s[1] = prefix THEN Tail(s) ELSE s

\* regexp.MustCompile("^\\s*#.*").Match
commentRegex(line) ==
    \E i \in 1..Len(line) :
        /\ line[i] = "#"
        /\ \A k \in 1..(i - 1) : line[k] \in Space

RECURSIVE SplitRunsFrom(_, _, _, _, _)
SplitRunsFrom(s, seps, i, cur, acc) ==
    IF i > Len(s) THEN Append(acc, cur)
    ELSE IF s[i] \in seps
         THEN IF i > 1 /\ s[i - 1] \in seps
              THEN SplitRunsFrom(s, seps, i + 1, cur, acc)
              ELSE SplitRunsFrom(s, seps, i + 1, <<>>, Append(acc, cur))
         ELSE SplitRunsFrom(s, seps, i + 1, Append(cur, s[i]), acc)

\* regexp.MustCompile("\\s+").Split(s, -1): a leading or trailing run of
\* whitespace leaves an empty first or last piece; "" gives [""]
whitespaceSplit(s) == SplitRunsFrom(s, Space, 1, <<>>, <<>>)

RECURSIVE SplitEachFrom(_, _, _, _, _)
SplitEachFrom(s, sep, i, cur, acc) ==
    IF i > Len(s) THEN Append(acc, cur)
    ELSE IF s[i] = sep
         THEN SplitEachFrom(s, sep, i + 1, <<>>, Append(acc, cur))
         ELSE SplitEachFrom(s, sep, i + 1, Append(cur, s[i]), acc)

\* strings.Split(s, sep) / bytes.Split(s, sep) with a one-atom separator
SplitEach(s, sep) == SplitEachFrom(s, sep, 1, <<>>, <<>>)

\* largest e >= j-1 with s[j..e] all in set
RunEnd(s, j, set) ==
    CHOOSE e \in (j - 1)..Len(s) :
        /\ \A k \in j..e : s[k] \in set
        /\ e = Len(s) \/ s[e + 1] \notin set

----------------------------------------------------------------------------
(* Helpers of the repository that live outside packages.go / systemctl.go *)

strIn(s, slice) == \E i \in 1..Len(slice) : slice[i] = s

\* fmt.Sprint of a []string: [a b c]
Sprint(slice) == <<"[">> \o Join(slice, <<" ">>) \o <<"]">>

Returned(code, msg) == [kind |-> "returned", exitCode |-> code, exitMessage |-> msg]
Fatal == [kind |-> "fatal", exitCode |-> -1, exitMessage |-> <<>>]
Panic == [kind |-> "panic", exitCode |-> -1, exitMessage |-> <<>>]

genericMessage(msg, name, actual) ==
    msg \o <<"\n\tExpected: ">> \o name \o <<"\n\tCandidates: ">> \o Sprint(actual)

genericError(msg, name, actual) == Returned(1, genericMessage(msg, name, actual))

fileToLines(text) == SplitEach(text, "\n")

stringToSlice(text) ==
    LET lines == SplitEach(text, "\n")
    IN  [i \in 1..Len(lines) |-> whitespaceSplit(lines[i])]

RECURSIVE getColumn(_, _)
getColumn(col, slice) ==
    IF slice = <<>> THEN <<>>
    ELSE IF Len(Head(slice)) >= col + 1
         THEN <<Head(slice)[col + 1]>> \o getColumn(col, Tail(slice))
         ELSE getColumn(col, Tail(slice))

commandColumnNoHeader(col, text) ==
    LET slice == stringToSlice(text)
    IN  getColumn(col, Tail(slice))

----------------------------------------------------------------------------
(* packages.go: Installed *)

Managers == {"dpkg", "rpm", "pacman"}
Programs == Managers \cup {"systemctl"}

\* err.Error() of starting the program: "" when it started
NoError == <<>>
NotFoundError == <<"exec: ", "executable file ", "not found", " in $PATH">>
OtherError == <<"fork/exec: ", "permission denied">>
StartErrors == {NoError, NotFoundError, OtherError}

\* mutant: any start error counts as "not found"
RECURSIVE getManagerFromAnyError(_, _, _)
getManagerFromAnyError(managers, startErr, i) ==
    IF i > Len(managers)
    THEN [fatal |-> TRUE, program |-> "", probed |-> managers]
    ELSE IF startErr[managers[i]] = NoError
         THEN [fatal |-> FALSE, program |-> managers[i],
               probed |-> SubSeq(managers, 1, i)]
         ELSE getManagerFromAnyError(managers, startErr, i + 1)

RECURSIVE getManagerFrom(_, _, _)
getManagerFrom(managers, startErr, i) ==
    IF i > Len(managers)
    THEN [fatal |-> TRUE, program |-> "", probed |-> managers]
    ELSE LET program == managers[i]
             message == startErr[program]
         IN  IF ~Contains(message, <<"not found">>)
             THEN [fatal |-> FALSE, program |-> program,
                   probed |-> SubSeq(managers, 1, i)]
             ELSE getManagerFrom(managers, startErr, i + 1)

getManager(managers, startErr) == getManagerFrom(managers, startErr, 1)

InstalledThunk(pkg, managers, h) ==
    LET m == getManager(managers, h.startErr)
        out == h.text
    IN  IF m.fatal THEN Fatal
        ELSE IF Contains(out, pkg) THEN Returned(0, <<>>)
        ELSE Returned(1, <<"Package was not found:">>
                         \o <<"\n\tPackage name: ">> \o pkg
                         \o <<"\n\tPackage manager: ">> \o <<m.program>>)

----------------------------------------------------------------------------
(* packages.go: PPA *)

\* second field of every line of /etc/apt/sources.list whose first field is
\* not a comment
RECURSIVE aptSourcesOf(_)
aptSourcesOf(split) ==
    IF split = <<>> THEN <<>>
    ELSE LET line == Head(split)
         IN  IF Len(line) > 1 /\ ~commentRegex(line[1])
             THEN <<line[2]>> \o aptSourcesOf(Tail(split))
             ELSE aptSourcesOf(Tail(split))

getAptSources(text) == aptSourcesOf(stringToSlice(text))

RECURSIVE ppasOf(_)
ppasOf(urls) ==
    IF urls = <<>> THEN <<>>
    ELSE IF Contains(Head(urls), <<"ppa">>)
         THEN <<Head(urls)>> \o ppasOf(Tail(urls))
         ELSE ppasOf(Tail(urls))

getPPAs(text) == ppasOf(getAptSources(text))

\* url.Parse fails on a malformed percent escape; "%zz" is the one atom of the
\* model that makes a URL unparseable
validURL(urlstr) == ~Contains(urlstr, <<"%zz">>)

\* mutant: an unparseable candidate lets the check pass with its message
RECURSIVE PPALoopInvalidPasses(_, _, _)
PPALoopInvalidPasses(name, ppas, i) ==
    IF i > Len(ppas) THEN genericError(<<"PPA not found">>, name, ppas)
    ELSE IF ~validURL(ppas[i])
         THEN Returned(0, <<"PPA URL invalid: ">> \o ppas[i])
         ELSE IF Contains(ppas[i], name) THEN Returned(0, <<>>)
         ELSE PPALoopInvalidPasses(name, ppas, i + 1)

\* mutant: all candidates are validated before any is matched
PPALoopValidateAll(name, ppas, i) ==
    LET bad == {k \in 1..Len(ppas) : ~validURL(ppas[k])}
    IN  IF bad # {}
        THEN Returned(1, <<"PPA URL invalid: ">>
                         \o ppas[CHOOSE k \in bad : \A l \in bad : k <= l])
        ELSE IF \E k \in 1..Len(ppas) : Contains(ppas[k], name)
             THEN Returned(0, <<>>)
             ELSE genericError(<<"PPA not found">>, name, ppas)

RECURSIVE PPALoop(_, _, _)
PPALoop(name, ppas, i) ==
    IF i > Len(ppas) THEN genericError(<<"PPA not found">>, name, ppas)
    ELSE IF ~validURL(ppas[i])
         THEN Returned(1, <<"PPA URL invalid: ">> \o ppas[i])
         ELSE IF Contains(ppas[i], name) THEN Returned(0, <<>>)
         ELSE PPALoop(name, ppas, i + 1)

PPAThunk(name, h) == PPALoop(name, getPPAs(h.text), 1)

----------------------------------------------------------------------------
(* packages.go: yum repositories *)

RECURSIVE yumColumn(_, _)
\* which = "name=": the fullNames list; which = "baseurl=": the urls list
yumColumn(lines, which) ==
    IF lines = <<>> THEN <<>>
    ELSE LET strLine == Head(lines)
             replaceName == TrimPrefix(strLine, "name=")
             replaceURL == TrimPrefix(strLine, "baseurl=")
             rest == yumColumn(Tail(lines), which)
         IN  IF commentRegex(strLine) THEN rest
             ELSE IF replaceName # strLine
                  THEN (IF which = "name=" THEN <<replaceName>> \o rest ELSE rest)
                  ELSE IF replaceURL # strLine
                       THEN (IF which = "baseurl=" THEN <<replaceURL>> \o rest ELSE rest)
                       ELSE rest

shortNameOf(fullName) ==
    LET nameSplit == whitespaceSplit(fullName)
    IN  nameSplit[Len(nameSplit)]

\* mutant: the zip stops one record early
getYumReposOffByOne(text) ==
    LET lines == fileToLines(text)
        fullNames == yumColumn(lines, "name=")
        urls == yumColumn(lines, "baseurl=")
        shortList == IF Len(fullNames) > Len(urls) THEN urls ELSE fullNames
    IN  [i \in 1..(Len(shortList) - 1) |->
            [Name |-> shortNameOf(fullNames[i]),
             Fullname |-> fullNames[i],
             Url |-> urls[i]]]

getYumRepos(text) ==
    LET lines == fileToLines(text)
        fullNames == yumColumn(lines, "name=")
        urls == yumColumn(lines, "baseurl=")
        shortList == IF Len(fullNames) > Len(urls) THEN urls ELSE fullNames
    IN  [i \in 1..Len(shortList) |->
            [Name |-> shortNameOf(fullNames[i]),
             Fullname |-> fullNames[i],
             Url |-> urls[i]]]

repoProperty(repo, prop) ==
    CASE prop = "Url" -> repo.Url
      [] prop = "Name" -> repo.Name
      [] prop = "Fullname" -> repo.Fullname

existsRepoWithProperty(prop, val, h) ==
    LET repos == getYumRepos(h.text)
        properties == [i \in 1..Len(repos) |-> repoProperty(repos[i], prop)]
    IN  IF prop \notin {"Url", "Name", "Fullname"} /\ repos # <<>> THEN Fatal
        ELSE IF strIn(val, properties) THEN Returned(0, <<>>)
        ELSE genericError(<<"Yum repo with given ", prop, " not found">>,
                          val, properties)

YumRepoExistsThunk(name, h) == existsRepoWithProperty("Name", name, h)

YumRepoURLThunk(urlstr, h) == existsRepoWithProperty("Url", urlstr, h)

----------------------------------------------------------------------------
(* packages.go: pacmanIgnore *)

\* end of the leftmost-first match of [^#]IgnorePkg\s+=\s+.+ starting at i,
\* 0 when the pattern does not match there.  \s+ before "=" is the whole run
\* of whitespace; \s+ after "=" is greedy and gives back whitespace until the
\* atom after it is not a newline; .+ then runs to the end of the line.
ignoreMatchEnd(data, i) ==
    IF ~(i + 1 <= Len(data) /\ data[i] # "#" /\ data[i + 1] = "IgnorePkg")
    THEN 0
    ELSE LET e1 == RunEnd(data, i + 2, Space)
         IN  IF ~(e1 >= i + 2 /\ e1 + 1 <= Len(data) /\ data[e1 + 1] = "=")
             THEN 0
             ELSE LET e2 == RunEnd(data, e1 + 2, Space)
                      starts == {p \in (e1 + 3)..(e2 + 1) :
                                    p <= Len(data) /\ data[p] # "\n"}
                  IN  IF starts = {} THEN 0
                      ELSE LET p == CHOOSE q \in starts : \A r \in starts : r <= q
                           IN  CHOOSE e \in p..Len(data) :
                                   /\ \A k \in p..e : data[k] # "\n"
                                   /\ e = Len(data) \/ data[e + 1] = "\n"

\* re.FindString(data): the leftmost match, "" when there is none
ignoreFindString(data) ==
    LET hits == {i \in 1..Len(data) : ignoreMatchEnd(data, i) > 0}
    IN  IF hits = {} THEN <<>>
        ELSE LET i == CHOOSE j \in hits : \A k \in hits : j <= k
             IN  SubSeq(data, i, ignoreMatchEnd(data, i))

pacmanIgnoreThunk(pkg, h) ==
    LET data == h.text
        find == ignoreFindString(data)
        spl == SplitEach(find, " ")
        packages == IF find # <<>> /\ Len(spl) > 2
                    THEN SubSeq(spl, 3, Len(spl)) ELSE <<>>
    IN  IF find # <<>> /\ Len(spl) > 2 /\ strIn(pkg, packages)
        THEN Returned(0, <<>>)
        ELSE genericError(<<"Couldn't find package in IgnorePkg">>, pkg, packages)

----------------------------------------------------------------------------
(* systemctl.go *)

systemctlExists(h) ==
    LET err == h.startErr["systemctl"]
    IN  ~(err # NoError /\ Contains(err, <<"not found", " in $PATH">>))

RECURSIVE serviceLoop(_, _, _, _, _, _)
serviceLoop(service, state, names, statuses, i, actualState) ==
    IF i > Len(names)
    THEN genericError(<<"Service did not have state">>, state, <<actualState>>)
    ELSE IF service = names[i] /\ Len(statuses) > i - 1
         THEN IF statuses[i] = state THEN Returned(0, <<>>)
              ELSE serviceLoop(service, state, names, statuses, i + 1, statuses[i])
         ELSE serviceLoop(service, state, names, statuses, i + 1, actualState)

systemctlService(service, loaded, h) ==
    LET column == IF loaded THEN 1 ELSE 2
        state == IF loaded THEN <<"loaded">> ELSE <<"active">>
        names == commandColumnNoHeader(1, h.text)
        statuses == commandColumnNoHeader(column + 1, h.text)
    IN  IF ~systemctlExists(h) THEN Fatal
        ELSE serviceLoop(service, state, names, statuses, 1, <<>>)

systemctlLoadedThunk(service, h) == systemctlService(service, TRUE, h)

systemctlActiveThunk(service, h) == systemctlService(service, FALSE, h)

\* mutant: the failure message is built in place
systemctlSockOwnMessage(value, path, h) ==
    LET column == IF path THEN 0 ELSE 1
        values == commandColumnNoHeader(column, h.text)
    IN  IF ~systemctlExists(h) THEN Fatal
        ELSE IF strIn(value, values) THEN Returned(0, <<>>)
        ELSE Returned(1, <<"Socket not found: ">> \o value)

systemctlSock(value, path, h) ==
    LET column == IF path THEN 0 ELSE 1
        values == commandColumnNoHeader(column, h.text)
    IN  IF ~systemctlExists(h) THEN Fatal
        ELSE IF strIn(value, values) THEN Returned(0, <<>>)
        ELSE genericError(<<"Socket not found">>, value, values)

systemctlSockPathThunk(path, h) == systemctlSock(path, TRUE, h)

systemctlSockUnitThunk(name, h) == systemctlSock(name, FALSE, h)

\* atoms matched by (\w|\-)
WordOrDash == {"x", "timer", "-"}

\* regexp.MustCompile("(\\w|\\-)+\\.timer").FindAllString(out, -1), scanning
\* from atom i: the greedy run of word atoms must be followed by ".timer"
RECURSIVE timerMatchesFrom(_, _)
timerMatchesFrom(out, i) ==
    LET hits == {j \in i..Len(out) :
                    /\ out[j] \in WordOrDash
                    /\ LET e == RunEnd(out, j, WordOrDash)
                       IN  /\ e + 2 <= Len(out)
                           /\ out[e + 1] = "."
                           /\ out[e + 2] = "timer"}
    IN  IF hits = {} THEN <<>>
        ELSE LET j == CHOOSE q \in hits : \A r \in hits : q <= r
                 e == RunEnd(out, j, WordOrDash)
             IN  <<SubSeq(out, j, e + 2)>> \o timerMatchesFrom(out, e + 3)

\* the log.Fatal branch is taken by timersThunk
getTimers(all, h) == timerMatchesFrom(h.text, 1)

timersThunk(unit, all, h) ==
    LET timers == getTimers(all, h)
    IN  IF h.runErr # NoError THEN Fatal
        ELSE IF strIn(unit, timers) THEN Returned(0, <<>>)
        ELSE genericError(<<"Timer not found">>, unit, timers)

systemctlTimerThunk(unit, h) == timersThunk(unit, FALSE, h)

systemctlTimerLoadedThunk(unit, h) == timersThunk(unit, TRUE, h)

RECURSIVE unitFileLoop(_, _, _, _, _, _)
unitFileLoop(unit, st, units, statuses, i, actualStatus) ==
    IF i > Len(units)
    THEN genericError(<<"Unit didn't have status">>, st, <<actualStatus>>)
    ELSE IF units[i] = unit
         THEN IF i > Len(statuses) THEN Panic  \* statuses[i]: index out of range
              ELSE IF statuses[i] = st THEN Returned(0, <<>>)
              ELSE unitFileLoop(unit, st, units, statuses, i + 1, statuses[i])
         ELSE unitFileLoop(unit, st, units, statuses, i + 1, actualStatus)

\* the two column extracts before the last two entries are cut off
unitFileColumns(h) ==
    [units |-> commandColumnNoHeader(0, h.text),
     statuses |-> commandColumnNoHeader(1, h.text)]

systemctlUnitFileStatusThunk(unit, st, h) ==
    LET cols == unitFileColumns(h)
    IN  IF Len(cols.units) < 2 \/ Len(cols.statuses) < 2
        THEN Panic  \* units[:len(units)-2]: slice bounds out of range
        ELSE unitFileLoop(unit, st,
                          SubSeq(cols.units, 1, Len(cols.units) - 2),
                          SubSeq(cols.statuses, 1, Len(cols.statuses) - 2),
                          1, <<>>)

----------------------------------------------------------------------------
(* Host states and arguments the checks are run on *)

NoStartErrors == [p \in Programs |-> NoError]

DefaultHost == [text |-> <<>>, startErr |-> NoStartErrors, runErr |-> NoError]

NoManager == [fatal |-> FALSE, program |-> "", probed |-> <<>>]

HostWithText(t) == [DefaultHost EXCEPT !.text = t]

Lines(ls) == Join(ls, <<"\n">>)

Permutations3 ==
    {ks \in [1..3 -> Managers] : \A i, j \in 1..3 : i # j => ks[i] # ks[j]}

ManagerErrors ==
    {[p \in Programs |-> IF p \in Managers THEN e[p] ELSE NoError] :
        e \in [Managers -> StartErrors]}

PkgNames == {<<>>, <<"a">>, <<"b", "a">>}
QueryOutputs == SeqsUpTo({"a", "b"}, 2)
InstalledHosts ==
    {[text |-> o, startErr |-> e, runErr |-> NoError] :
        o \in QueryOutputs, e \in ManagerErrors}

AptUrls == {<<"ppa", "x">>, <<"ppa", "y">>, <<"ppa", "%zz">>,
            <<"ppa", "x", "%zz">>, <<"http", "x">>, <<"%zz">>}
AptLines ==
    {<<"deb", " ">> \o u : u \in AptUrls}
    \cup {<<"#", "deb", " ", "ppa", "%zz">>, <<"#", " ", "deb", " ", "ppa", "x">>,
          <<"deb">>}
AptHosts == {HostWithText(Lines(ls)) : ls \in SeqsUpTo(AptLines, MaxAptLines)}
PPANames == {<<>>, <<"x">>, <<"y">>, <<"z">>}

YumLines == {<<"name=", "a">>, <<"name=", "a", " ", "b">>, <<"name=", "b", " ">>,
             <<"baseurl=", "u">>, <<"baseurl=", "v">>,
             <<" ", "#", "name=", "c">>, <<" ", "name=", "c">>}
YumHosts == {HostWithText(Lines(ls)) : ls \in SeqsUpTo(YumLines, MaxYumLines)}
YumNames == {<<>>, <<"a">>, <<"b">>}
YumUrls == {<<"u">>, <<"v">>, <<"w">>}

PacmanPrefixes == SeqsUpTo({"\n", " ", "#"}, MaxPrefix)
PacmanPkgLists == SeqsUpTo({<<"a">>, <<"b">>}, MaxPkgs)
PacmanSuffixes == {<<>>, <<"\n", "IgnorePkg", " ", "=", " ", "c">>}
PacmanTexts ==
    PacmanPrefixes
    \cup {pre \o <<"IgnorePkg", " ", "=">> \o gap \o Join(pkgs, <<" ">>) \o suf :
            pre \in PacmanPrefixes, gap \in {<<" ">>, <<" ", " ">>},
            pkgs \in PacmanPkgLists, suf \in PacmanSuffixes}
PacmanHosts == {HostWithText(t) : t \in PacmanTexts}
PacmanPkgs == {<<"a">>, <<"b">>, <<"=">>}

SystemctlErrors ==
    {NoStartErrors, [NoStartErrors EXCEPT !["systemctl"] = NotFoundError]}

UnitsHeader == <<" ", "UNIT", " ", "LOAD", " ", "ACTIVE", " ", "SUB">>
UnitLines == {<<>>, <<" ", "u">>, <<" ", "v">>, <<" ", "u", " ", "loaded">>,
              <<" ", "u", " ", "loaded", " ", "active">>,
              <<" ", "u", " ", "masked", " ", "inactive">>,
              <<" ", "v", " ", "loaded", " ", "active">>,
              <<" ", "v", " ", "loaded", " ", "inactive">>}
UnitTexts ==
    {<<>>} \cup {Lines(<<UnitsHeader>> \o ls) : ls \in SeqsUpTo(UnitLines, MaxUnitLines)}
UnitHosts ==
    {[text |-> t, startErr |-> e, runErr |-> NoError] :
        t \in UnitTexts, e \in SystemctlErrors}
UnitNames == {<<"u">>, <<"v">>}

SocketsHeader == <<"LISTEN", " ", "UNIT">>
SocketLines == {<<>>, <<"p">>, <<"p", " ", "u">>, <<"q", " ", "v">>}
SocketHosts ==
    {[text |-> Lines(<<SocketsHeader>> \o ls), startErr |-> e, runErr |-> NoError] :
        ls \in SeqsUpTo(SocketLines, MaxSocketLines), e \in SystemctlErrors}
SocketValues == {<<"p">>, <<"u">>, <<"w">>}

TimerHosts ==
    {HostWithText(t) : t \in SeqsUpTo({"x", "-", ".", "timer", " "}, MaxTimerAtoms)}
    \cup {[DefaultHost EXCEPT !.runErr = <<"exit status 1">>]}
TimerUnits == {<<"x", ".", "timer">>, <<"timer">>}

UnitFilesHeader == <<"UNIT", " ", "FILE", " ", "STATE">>
UnitFilesSummary == <<"2", " ", "unit", " ", "files", " ", "listed.">>
UnitFileLines == {<<>>, UnitFilesSummary, <<"v">>,
                  <<"u", " ", "enabled">>, <<"v", " ", "disabled">>}
UnitFileHosts ==
    {DefaultHost}
    \cup {HostWithText(Lines(<<UnitFilesHeader>> \o ls)) :
            ls \in SeqsUpTo(UnitFileLines, MaxUnitFileLines)}
UnitFileUnits == {<<"u">>, <<"v">>}
UnitFileStatuses == {<<"enabled">>, <<"disabled">>}

----------------------------------------------------------------------------
(* The state machine: a factory binds the arguments, the thunk is invoked *)

Init ==
    /\ pc = "idle"
    /\ check = "none"
    /\ target = <<>>
    /\ status = <<>>
    /\ keys = <<>>
    /\ host = DefaultHost
    /\ mgr = NoManager
    /\ exitCode = -1
    /\ exitMessage = <<>>

Bind(c, t, st, ks) ==
    /\ pc = "idle"
    /\ pc' = "built"
    /\ check' = c
    /\ target' = t
    /\ status' = st
    /\ keys' = ks
    /\ UNCHANGED <<host, mgr, exitCode, exitMessage>>

Finish(c, h, m, outcome) ==
    /\ pc = "built"
    /\ check = c
    /\ pc' = outcome.kind
    /\ host' = h
    /\ mgr' = m
    /\ exitCode' = outcome.exitCode
    /\ exitMessage' = outcome.exitMessage
    /\ UNCHANGED <<check, target, status, keys>>

\* the keys of the managers map, in the order the map iteration yields them
Installed == \E pkg \in PkgNames, ks \in Permutations3 : Bind("Installed", pkg, <<>>, ks)
PPA == \E name \in PPANames : Bind("PPA", name, <<>>, <<>>)
YumRepoExists == \E name \in YumNames : Bind("YumRepoExists", name, <<>>, <<>>)
YumRepoURL == \E urlstr \in YumUrls : Bind("YumRepoURL", urlstr, <<>>, <<>>)
pacmanIgnore == \E pkg \in PacmanPkgs : Bind("pacmanIgnore", pkg, <<>>, <<>>)
systemctlLoaded == \E service \in UnitNames : Bind("systemctlLoaded", service, <<>>, <<>>)
systemctlActive == \E service \in UnitNames : Bind("systemctlActive", service, <<>>, <<>>)
systemctlSockPath == \E path \in SocketValues : Bind("systemctlSockPath", path, <<>>, <<>>)
systemctlSockUnit == \E name \in SocketValues : Bind("systemctlSockUnit", name, <<>>, <<>>)
systemctlTimer == \E unit \in TimerUnits : Bind("systemctlTimer", unit, <<>>, <<>>)
systemctlTimerLoaded == \E unit \in TimerUnits : Bind("systemctlTimerLoaded", unit, <<>>, <<>>)
systemctlUnitFileStatus ==
    \E unit \in UnitFileUnits, st \in UnitFileStatuses :
        Bind("systemctlUnitFileStatus", unit, st, <<>>)

InvokeInstalled ==
    /\ pc = "built"
    /\ check = "Installed"
    /\ \E h \in InstalledHosts :
           Finish("Installed", h, getManager(keys, h.startErr), InstalledThunk(target, keys, h))
InvokePPA ==
    /\ pc = "built"
    /\ check = "PPA"
    /\ \E h \in AptHosts : Finish("PPA", h, NoManager, PPAThunk(target, h))
InvokeYumRepoExists ==
    /\ pc = "built"
    /\ check = "YumRepoExists"
    /\ \E h \in YumHosts : Finish("YumRepoExists", h, NoManager, YumRepoExistsThunk(target, h))
InvokeYumRepoURL ==
    /\ pc = "built"
    /\ check = "YumRepoURL"
    /\ \E h \in YumHosts : Finish("YumRepoURL", h, NoManager, YumRepoURLThunk(target, h))
InvokePacmanIgnore ==
    /\ pc = "built"
    /\ check = "pacmanIgnore"
    /\ \E h \in PacmanHosts : Finish("pacmanIgnore", h, NoManager, pacmanIgnoreThunk(target, h))
InvokeSystemctlLoaded ==
    /\ pc = "built"
    /\ check = "systemctlLoaded"
    /\ \E h \in UnitHosts :
           Finish("systemctlLoaded", h, NoManager, systemctlLoadedThunk(target, h))
InvokeSystemctlActive ==
    /\ pc = "built"
    /\ check = "systemctlActive"
    /\ \E h \in UnitHosts :
           Finish("systemctlActive", h, NoManager, systemctlActiveThunk(target, h))
InvokeSystemctlSockPath ==
    /\ pc = "built"
    /\ check = "systemctlSockPath"
    /\ \E h \in SocketHosts :
           Finish("systemctlSockPath", h, NoManager, systemctlSockPathThunk(target, h))
InvokeSystemctlSockUnit ==
    /\ pc = "built"
    /\ check = "systemctlSockUnit"
    /\ \E h \in SocketHosts :
           Finish("systemctlSockUnit", h, NoManager, systemctlSockUnitThunk(target, h))
InvokeSystemctlTimer ==
    /\ pc = "built"
    /\ check = "systemctlTimer"
    /\ \E h \in TimerHosts :
           Finish("systemctlTimer", h, NoManager, systemctlTimerThunk(target, h))
InvokeSystemctlTimerLoaded ==
    /\ pc = "built"
    /\ check = "systemctlTimerLoaded"
    /\ \E h \in TimerHosts :
           Finish("systemctlTimerLoaded", h, NoManager, systemctlTimerLoadedThunk(target, h))
InvokeSystemctlUnitFileStatus ==
    /\ pc = "built"
    /\ check = "systemctlUnitFileStatus"
    /\ \E h \in UnitFileHosts :
           Finish("systemctlUnitFileStatus", h, NoManager,
                  systemctlUnitFileStatusThunk(target, status, h))

\* the thunk keeps no state: after it returned it can be invoked again
Reinvoke ==
    /\ pc = "returned"
    /\ pc' = "built"
    /\ host' = DefaultHost
    /\ mgr' = NoManager
    /\ exitCode' = -1
    /\ exitMessage' = <<>>
    /\ UNCHANGED <<check, target, status, keys>>

Next ==
    \/ Installed \/ PPA \/ YumRepoExists \/ YumRepoURL \/ pacmanIgnore
    \/ systemctlLoaded \/ systemctlActive \/ systemctlSockPath \/ systemctlSockUnit
    \/ systemctlTimer \/ systemctlTimerLoaded \/ systemctlUnitFileStatus
    \/ InvokeInstalled \/ InvokePPA \/ InvokeYumRepoExists \/ InvokeYumRepoURL
    \/ InvokePacmanIgnore \/ InvokeSystemctlLoaded \/ InvokeSystemctlActive
    \/ InvokeSystemctlSockPath \/ InvokeSystemctlSockUnit
    \/ InvokeSystemctlTimer \/ InvokeSystemctlTimerLoaded
    \/ InvokeSystemctlUnitFileStatus
    \/ Reinvoke

Spec == Init /\ [][Next]_vars

\* getManager on any ordered candidate list
ProbeLists == SeqsUpTo(Managers, MaxManagers)

InitProbe ==
    /\ pc = "built"
    /\ check = "getManager"
    /\ target = <<>>
    /\ status = <<>>
    /\ keys \in ProbeLists
    /\ host \in {[DefaultHost EXCEPT !.startErr = e] : e \in ManagerErrors}
    /\ mgr = NoManager
    /\ exitCode = -1
    /\ exitMessage = <<>>

Probe ==
    /\ pc = "built"
    /\ check = "getManager"
    /\ mgr' = getManager(keys, host.startErr)
    /\ pc' = IF mgr'.fatal THEN "fatal" ELSE "returned"
    /\ UNCHANGED <<check, target, status, keys, host, exitCode, exitMessage>>

NextProbe == Probe

SpecProbe == InitProbe /\ [][NextProbe]_vars

----------------------------------------------------------------------------
(* Vocabulary of the properties, defined on the raw host text *)

Invoked == pc \in {"returned", "fatal", "panic"}

Passed == pc = "returned" /\ exitCode = 0 /\ exitMessage = <<>>

\* the elements of a finite set of integers in increasing order
RECURSIVE Ascending(_)
Ascending(S) ==
    IF S = {} THEN <<>>
    ELSE LET m == CHOOSE x \in S : \A y \in S : x <= y
         IN  <<m>> \o Ascending(S \ {m})

LineStarts(text) == {1} \cup {i + 1 : i \in {k \in 1..Len(text) : text[k] = "\n"}}

LineEnd(text, i) ==
    CHOOSE e \in (i - 1)..Len(text) :
        /\ \A k \in i..e : text[k] # "\n"
        /\ e = Len(text) \/ text[e + 1] = "\n"

\* the values of the lines that start with the given key, in file order
ValuesOf(text, key) ==
    LET at == Ascending({i \in LineStarts(text) : i <= Len(text) /\ text[i] = key})
    IN  [k \in 1..Len(at) |-> SubSeq(text, at[k] + 1, LineEnd(text, at[k]))]

\* the last maximal run of non-whitespace atoms of s, "" when there is none
LastToken(s) ==
    LET ends == {e \in 1..Len(s) : s[e] \notin Space}
    IN  IF ends = {} THEN <<>>
        ELSE LET e == CHOOSE x \in ends : \A y \in ends : y <= x
                 b == CHOOSE x \in 1..e :
                        /\ \A k \in x..e : s[k] \notin Space
                        /\ x = 1 \/ s[x - 1] \in Space
             IN  SubSeq(s, b, e)

\* label, Expected and Candidates parts in this order, the candidates rendered
\* as a bracketed list
GenericShape(m) ==
    \E i, j \in 1..Len(m) :
        /\ 1 < i /\ i < j /\ j < Len(m)
        /\ m[i] = "\n\tExpected: "
        /\ m[j] = "\n\tCandidates: "
        /\ m[j + 1] = "["
        /\ m[Len(m)] = "]"

----------------------------------------------------------------------------
(* C1: every check that returns, returns exit code 0 with an empty message
   or exit code 1 with a non-empty message *)
ExitContract ==
    pc = "returned" =>
        \/ exitCode = 0 /\ exitMessage = <<>>
        \/ exitCode = 1 /\ exitMessage # <<>>

ExitContractWitness ==
    /\ pc = "returned" /\ check = "PPA" /\ exitCode = 1
    /\ exitMessage[1] = "PPA URL invalid: "

----------------------------------------------------------------------------
(* C2: getManager is fatal if and only if the list is empty or every
   candidate's probe fails with "not found"; otherwise it returns the first
   candidate whose probe did not fail with "not found" (any other failure
   counts as found) and probes no candidate after it *)
GetManagerContract ==
    LET found == {i \in 1..Len(keys) : host.startErr[keys[i]] # NotFoundError}
    IN  (Invoked /\ check = "getManager") =>
            /\ pc = "fatal" <=> found = {}
            /\ pc = "returned" =>
                   \E i \in found :
                       /\ \A j \in found : i <= j
                       /\ mgr.program = keys[i]
                       /\ mgr.probed = SubSeq(keys, 1, i)

GetManagerWitness ==
    /\ pc = "returned" /\ check = "getManager"
    /\ Len(keys) = 3
    /\ host.startErr[keys[1]] = NotFoundError
    /\ host.startErr[keys[2]] = OtherError
    /\ mgr.program = keys[2]
    /\ mgr.probed = SubSeq(keys, 1, 2)

----------------------------------------------------------------------------
(* C3: getYumRepos returns min(#lines starting with "name=", #lines starting
   with "baseurl=") records; record i holds the i-th name= value and the i-th
   baseurl= value *)
YumRecordCount ==
    (pc = "returned" /\ check \in {"YumRepoExists", "YumRepoURL"}) =>
        LET repos == getYumRepos(host.text)
            names == ValuesOf(host.text, "name=")
            urls == ValuesOf(host.text, "baseurl=")
        IN  /\ Len(repos) = Min(Len(names), Len(urls))
            /\ \A i \in 1..Len(repos) :
                   /\ repos[i].Fullname = names[i]
                   /\ repos[i].Url = urls[i]

YumRecordCountWitness ==
    /\ pc = "returned" /\ check = "YumRepoURL"
    /\ Len(ValuesOf(host.text, "name=")) = 2
    /\ Len(ValuesOf(host.text, "baseurl=")) = 1
    /\ Len(getYumRepos(host.text)) = 1
    /\ exitCode = 0

----------------------------------------------------------------------------
(* C4: YumRepoExists(n) passes exactly when n is the last whitespace-delimited
   token of some record's full name, YumRepoURL(u) exactly when u is some
   record's url; otherwise the report lists all names (urls) in file order *)
YumLookupContract ==
    (pc = "returned" /\ check \in {"YumRepoExists", "YumRepoURL"}) =>
        LET names == ValuesOf(host.text, "name=")
            urls == ValuesOf(host.text, "baseurl=")
            n == Min(Len(names), Len(urls))
            byName == check = "YumRepoExists"
            cands == [i \in 1..n |-> IF byName THEN LastToken(names[i]) ELSE urls[i]]
            prop == IF byName THEN "Name" ELSE "Url"
        IN  IF strIn(target, cands)
            THEN exitCode = 0 /\ exitMessage = <<>>
            ELSE /\ exitCode = 1
                 /\ exitMessage =
                        genericMessage(<<"Yum repo with given ", prop, " not found">>,
                                       target, cands)

----------------------------------------------------------------------------
(* C5: when the first "IgnorePkg =" line of the pacman config reads
   "IgnorePkg = p1 ... pk", wherever it sits, pacmanIgnore(p) passes if and
   only if p is one of p1..pk and otherwise reports exactly [p1, ..., pk] *)
StripLeft(line) ==
    LET n == RunEnd(line, 1, {" ", "\t"})
    IN  SubSeq(line, n + 1, Len(line))

IsIgnoreLine(line) ==
    LET l == StripLeft(line)
    IN  Len(l) >= 3 /\ SubSeq(l, 1, 3) = <<"IgnorePkg", " ", "=">>

\* p1..pk of a line that reads "IgnorePkg = p1 ... pk"
IgnoreTokens(line) ==
    LET l == StripLeft(line)
    IN  SplitEach(SubSeq(l, 5, Len(l)), " ")

ReadsAsClaimed(line) ==
    LET l == StripLeft(line)
    IN  /\ Len(l) >= 5 /\ l[4] = " "
        /\ \A i \in 1..Len(IgnoreTokens(line)) : IgnoreTokens(line)[i] # <<>>

PacmanIgnoreContract ==
    (pc = "returned" /\ check = "pacmanIgnore") =>
        LET lines == SplitEach(host.text, "\n")
            hits == {i \in 1..Len(lines) : IsIgnoreLine(lines[i])}
        IN  hits # {} =>
                LET first == lines[CHOOSE i \in hits : \A j \in hits : i <= j]
                IN  ReadsAsClaimed(first) =>
                        IF strIn(target, IgnoreTokens(first))
                        THEN exitCode = 0 /\ exitMessage = <<>>
                        ELSE /\ exitCode = 1
                             /\ exitMessage =
                                    genericMessage(<<"Couldn't find package in IgnorePkg">>,
                                                   target, IgnoreTokens(first))

----------------------------------------------------------------------------
(* C6: systemctlActive(u) passes if and only if some line of the list-units
   output has unit name u and, on that same line, the active state "active";
   systemctlLoaded(u) likewise with the load state "loaded" *)
DataLines(text) == Tail(SplitEach(text, "\n"))

SameLineState ==
    (pc = "returned" /\ check \in {"systemctlLoaded", "systemctlActive"}) =>
        LET lines == DataLines(host.text)
            col == IF check = "systemctlLoaded" THEN 3 ELSE 4
            state == IF check = "systemctlLoaded" THEN <<"loaded">> ELSE <<"active">>
            onLine == \E i \in 1..Len(lines) :
                          LET f == whitespaceSplit(lines[i])
                          IN  Len(f) >= col /\ f[2] = target /\ f[col] = state
        IN  Passed <=> onLine

----------------------------------------------------------------------------
(* C7: a PPA candidate that fails URL parsing aborts the check with the
   invalid-URL message for every target name, wherever it sits in the list;
   when all candidates parse, PPA(name) passes if and only if some candidate
   contains name *)
InvalidUrlMessage(m) == Len(m) >= 1 /\ m[1] = "PPA URL invalid: "

PPAInvalidAlwaysAborts ==
    (pc = "returned" /\ check = "PPA") =>
        LET ppas == getPPAs(host.text)
            bad == {i \in 1..Len(ppas) : ~validURL(ppas[i])}
            hit == {i \in 1..Len(ppas) : Contains(ppas[i], target)}
        IN  IF bad # {}
            THEN exitCode = 1 /\ InvalidUrlMessage(exitMessage)
            ELSE Passed <=> hit # {}

(* C7 as amended: the candidates are examined in file order and the first
   one that is unparseable or contains name decides; an unparseable candidate
   aborts only if no earlier candidate contains name *)
PPAFirstEventDecides ==
    (pc = "returned" /\ check = "PPA") =>
        LET ppas == getPPAs(host.text)
            bad == {i \in 1..Len(ppas) : ~validURL(ppas[i])}
            hit == {i \in 1..Len(ppas) : Contains(ppas[i], target)}
            first == CHOOSE i \in bad \cup hit : \A j \in bad \cup hit : i <= j
        IN  IF bad \cup hit = {}
            THEN /\ exitCode = 1
                 /\ exitMessage = genericMessage(<<"PPA not found">>, target, ppas)
            ELSE IF first \in bad
                 THEN /\ exitCode = 1
                      /\ exitMessage = <<"PPA URL invalid: ">> \o ppas[first]
                 ELSE Passed

PPAFirstEventWitness ==
    /\ pc = "returned" /\ check = "PPA" /\ exitCode = 0
    /\ LET ppas == getPPAs(host.text)
       IN  /\ Len(ppas) = 2
           /\ validURL(ppas[1]) /\ Contains(ppas[1], target)
           /\ ~validURL(ppas[2])

----------------------------------------------------------------------------
----------------------------------------------------------------------------
(* C9: on a list-unit-files output of n >= 1 unit rows followed by one blank
   line and one summary line, systemctlUnitFileStatus(u, s) passes if and only
   if some unit row, the last one included, has name u and status s *)
IsUnitRow(line) ==
    Len(line) = 3 /\ line[1] \notin Space /\ line[2] = " " /\ line[3] \notin Space

WellFormedUnitFiles(text) ==
    LET lines == SplitEach(text, "\n")
        n == Len(lines) - 3
    IN  /\ n >= 1
        /\ lines[1] = UnitFilesHeader
        /\ \A i \in 2..(n + 1) : IsUnitRow(lines[i])
        /\ lines[n + 2] = <<>>
        /\ lines[n + 3] = UnitFilesSummary

EveryUnitRowCounts ==
    (Invoked /\ check = "systemctlUnitFileStatus" /\ WellFormedUnitFiles(host.text)) =>
        LET lines == SplitEach(host.text, "\n")
            rows == SubSeq(lines, 2, Len(lines) - 2)
        IN  Passed <=>
                \E i \in 1..Len(rows) :
                    rows[i][1] = target[1] /\ <<rows[i][3]>> = status

----------------------------------------------------------------------------
(* C10: with systemctl present, systemctlLoaded, systemctlActive and
   systemctlUnitFileStatus complete with exit code 0 or 1 on every command
   output; no slice bound or index on the column extracts is out of range *)
NoAbnormalFailure ==
    (/\ Invoked
     /\ check \in {"systemctlLoaded", "systemctlActive", "systemctlUnitFileStatus"}
     /\ systemctlExists(host)) =>
        pc = "returned" /\ exitCode \in {0, 1}

====
